---------------------------- MODULE Spec2Model ----------------------------
(***************************************************************************)
(* Model of the fantasy-football prediction pipeline                       *)
(* (src/src/pwn_fantasy_football/prediction): the scoring engine           *)
(* (FantasyPointCalculator), the seasonal aggregator, the trend estimator, *)
(* the season predictor and the orchestrator (FantasyPredictor), with the  *)
(* top-N accessor and the persistence of predictions and data frames       *)
(* (data_fetch/utils.py).                                                  *)
(*                                                                         *)
(* Numbers: Python/polars floats are modelled as exact rationals <<n, d>>  *)
(* with d > 0 in lowest terms; a polars null / Python None is Null.  The   *)
(* only irrational quantity, the sample standard deviation, is held to     *)
(* 1/StdScale (see Std).                                                   *)
(***************************************************************************)
EXTENDS Integers, Sequences, FiniteSets, TLC

VARIABLES
    pc,                \* where the operation under check stands
    config,            \* self.config: [scoring, prediction]
    df,                \* the game-level frame (raw, then scored)
    seasonal_df,       \* the seasonal table
    eligible_players,  \* predict_all_players: the list its loop runs over
    cursor,            \* predict_all_players: players the loop has handled
    predictions,       \* predict_all_players: the predictions appended so far
    result,            \* what the operation returned or raised
    fs,                \* the file system: [dirs, files]
    remote,            \* nflreadpy: what the load function of each data type does
    calls              \* the fetch methods invoked so far, with what each did

vars == <<pc, config, df, seasonal_df, eligible_players, cursor, predictions, result, fs,
          remote, calls>>

-----------------------------------------------------------------------------
(* Rational arithmetic (the model of float arithmetic).                    *)

Null == <<>>

\* A file system without directories and files.
EmptyFs == [dirs |-> {}, files |-> {}]

Abs(x) == IF x < 0 THEN -x ELSE x

RECURSIVE GCD(_, _)
GCD(a, b) == IF b = 0 THEN a ELSE GCD(b, a % b)

Norm(n, d) ==
    LET s == IF d < 0 THEN -1 ELSE 1
        g == GCD(Abs(n), Abs(d))
    IN  <<(s * n) \div g, (s * d) \div g>>

R(n) == <<n, 1>>
Zero == <<0, 1>>
Half == <<1, 2>>
One == <<1, 1>>

\* Sums and products cancel common factors before multiplying, which keeps
\* the intermediate integers small.
RAdd(a, b) ==
    LET g == GCD(a[2], b[2])
    IN  Norm(a[1] * (b[2] \div g) + b[1] * (a[2] \div g), (a[2] \div g) * b[2])
RNeg(a) == <<-a[1], a[2]>>
RSub(a, b) == RAdd(a, RNeg(b))
RMul(a, b) ==
    LET g1 == GCD(Abs(a[1]), b[2])
        g2 == GCD(Abs(b[1]), a[2])
    IN  Norm((a[1] \div g1) * (b[1] \div g2), (a[2] \div g2) * (b[2] \div g1))
RDiv(a, b) == RMul(a, IF b[1] < 0 THEN <<-b[2], -b[1]>> ELSE <<b[2], b[1]>>)
RLt(a, b) == RSub(a, b)[1] < 0
RLe(a, b) == RSub(a, b)[1] <= 0
RMax(a, b) == IF RLt(a, b) THEN b ELSE a
RMin(a, b) == IF RLt(b, a) THEN b ELSE a

\* Long division: <<floor(r * scale / d), the remainder>> for 0 <= r < d and
\* scale a power of ten.
RECURSIVE ScaledDiv(_, _, _)
ScaledDiv(r, d, scale) ==
    IF scale = 1 THEN <<0, r>>
    ELSE LET prev == ScaledDiv(r, d, scale \div 10)
             t == prev[2] * 10
         IN  <<prev[1] * 10 + (t \div d), t % d>>

\* Python round(x, ndigits) with 10^ndigits = scale: nearest multiple of
\* 1/scale, ties to the even one.
Round(x, scale) ==
    LET whole == x[1] \div x[2]
        frac == ScaledDiv(x[1] - whole * x[2], x[2], scale)
        q == whole * scale + frac[1]
        up == \/ 2 * frac[2] > x[2]
              \/ (2 * frac[2] = x[2] /\ q % 2 = 1)
    IN  Norm(IF up THEN q + 1 ELSE q, scale)

\* polars arithmetic on nullable columns: null in, null out.
NMul(a, b) == IF a = Null \/ b = Null THEN Null ELSE RMul(a, b)
NAdd(a, b) == IF a = Null \/ b = Null THEN Null ELSE RAdd(a, b)

\* A value is None / null (a number is a pair, a record has fields).
IsNone(x) == DOMAIN x = {}

\* dict.get(key, default)
Get(d, key, default) == IF key \in DOMAIN d THEN d[key] ELSE default

RECURSIVE SeqSum(_)
SeqSum(s) == IF s = <<>> THEN Zero ELSE RAdd(s[1], SeqSum(Tail(s)))

RECURSIVE SeqToSet(_)
SeqToSet(s) == IF s = <<>> THEN {} ELSE {s[1]} \cup SeqToSet(Tail(s))

\* All orderings of a finite set, as sequences without repetition.
Orderings(S) ==
    {s \in [1..Cardinality(S) -> S] : \A i, j \in 1..Cardinality(S) : i # j => s[i] # s[j]}

-----------------------------------------------------------------------------
(* Scoring engine: FantasyPointCalculator.                                 *)

\* The ten scoring categories in the order calculate_fantasy_points handles
\* them, each with the default weight of its self.scoring.get(...).
ScoringColumns ==
    << [col |-> "passing_yards",         default |-> <<1, 25>>],
       [col |-> "passing_tds",           default |-> R(4)],
       [col |-> "interceptions",         default |-> R(-2)],
       [col |-> "rushing_yards",         default |-> <<1, 10>>],
       [col |-> "rushing_tds",           default |-> R(6)],
       [col |-> "receptions",            default |-> <<1, 2>>],
       [col |-> "receiving_yards",       default |-> <<1, 10>>],
       [col |-> "receiving_tds",         default |-> R(6)],
       [col |-> "fumbles_lost",          default |-> R(-2)],
       [col |-> "two_point_conversions", default |-> R(2)] >>

Categories == {ScoringColumns[k].col : k \in 1..Len(ScoringColumns)}

\* self.scoring.get(<category>, <default>)
Weight(scoring, k) == Get(scoring, ScoringColumns[k].col, ScoringColumns[k].default)

\* Faulty variant: a column missing from the frame yields a null component instead of
\* the literal 0.0.
ComponentFpAbsentNull(cols, stats, scoring, k) ==
    IF ScoringColumns[k].col \in cols
    THEN NMul(stats[ScoringColumns[k].col], Weight(scoring, k))
    ELSE Null

\* One "<x>_fp" column of a row: col * weight when the column is in the
\* frame, lit(0.0) otherwise.
ComponentFp(cols, stats, scoring, k) ==
    IF ScoringColumns[k].col \in cols
    THEN NMul(stats[ScoringColumns[k].col], Weight(scoring, k))
    ELSE Zero

\* The final sum passing_fp + passing_td_fp + ... + two_pt_fp, left to right.
RECURSIVE SumComponents(_, _, _, _)
SumComponents(cols, stats, scoring, k) ==
    IF k = 1 THEN ComponentFp(cols, stats, scoring, 1)
    ELSE NAdd(SumComponents(cols, stats, scoring, k - 1),
              ComponentFp(cols, stats, scoring, k))

\* calculate_fantasy_points: the frame with the fantasy_points column added.
\* A frame is [cols: the stat columns it has, rows: its rows]; a row's stats
\* maps each column of the frame to a number or Null.
CalculateFantasyPoints(frame, scoring) ==
    [cols |-> frame.cols,
     scored |-> TRUE,
     rows |-> [i \in 1..Len(frame.rows) |->
                 [player_id |-> frame.rows[i].player_id,
                  player_name |-> frame.rows[i].player_name,
                  season |-> frame.rows[i].season,
                  position |-> frame.rows[i].position,
                  stats |-> frame.rows[i].stats,
                  fantasy_points |->
                      SumComponents(frame.cols, frame.rows[i].stats, scoring,
                                    Len(ScoringColumns))]]]

-----------------------------------------------------------------------------
(* Seasonal aggregator: FantasyPredictor.get_player_seasonal_stats.        *)

\* Precision to which the (irrational) standard deviation is held.
StdScale == 100

\* Largest k in lo..hi with k*k*q <= p (hi*hi*q > p is kept by the caller).
RECURSIVE ISqrtIn(_, _, _, _)
ISqrtIn(p, q, lo, hi) ==
    IF lo >= hi THEN lo
    ELSE LET mid == (lo + hi + 1) \div 2
         IN  IF mid * mid * q <= p THEN ISqrtIn(p, q, mid, hi)
             ELSE ISqrtIn(p, q, lo, mid - 1)

\* sqrt of a rational >= 0, rounded down to a multiple of 1/StdScale.
\* (k * k <= p / q exactly when k * k <= p \div q; the search stays below
\* the largest k whose square is a 32-bit integer.)
Sqrt(x) ==
    LET p == (x[1] * StdScale * StdScale) \div x[2]
        hi == IF (p \div 2) + 1 < 46340 THEN (p \div 2) + 1 ELSE 46340
    IN  Norm(ISqrtIn(p, 1, 0, hi), StdScale)

\* The non-null fantasy_points of a group of scored rows, as a sequence.
NonNullFp(rows) ==
    LET nn == SelectSeq(rows, LAMBDA r : r.fantasy_points # Null)
    IN  [i \in 1..Len(nn) |-> nn[i].fantasy_points]

\* pl.mean: the mean of the non-null values, null when there is none.
Mean(xs) == IF xs = <<>> THEN Null ELSE RDiv(SeqSum(xs), R(Len(xs)))

RECURSIVE SumSqDev(_, _)
SumSqDev(xs, m) ==
    IF xs = <<>> THEN Zero
    ELSE RAdd(RMul(RSub(xs[1], m), RSub(xs[1], m)), SumSqDev(Tail(xs), m))

\* Faulty variant: the population deviation (ddof = 0), which is 0 for a
\* single value.
StdPopulation(xs) ==
    IF xs = <<>> THEN Null
    ELSE Sqrt(RDiv(SumSqDev(xs, Mean(xs)), R(Len(xs))))

\* pl.std (ddof = 1): null with fewer than 2 non-null values.
Std(xs) ==
    IF Len(xs) < 2 THEN Null
    ELSE Sqrt(RDiv(SumSqDev(xs, Mean(xs)), R(Len(xs) - 1)))

RECURSIVE SeqMin(_)
SeqMin(xs) ==
    IF xs = <<>> THEN Null
    ELSE IF Len(xs) = 1 THEN xs[1] ELSE RMin(xs[1], SeqMin(Tail(xs)))

RECURSIVE SeqMax(_)
SeqMax(xs) ==
    IF xs = <<>> THEN Null
    ELSE IF Len(xs) = 1 THEN xs[1] ELSE RMax(xs[1], SeqMax(Tail(xs)))

\* Faulty variant: a deviation of 0 is taken for a missing one.
ConsistencyScoreFalsyStd(fp_std) ==
    IF fp_std = Null \/ fp_std = Zero THEN Half ELSE RDiv(One, RAdd(fp_std, One))

\* Faulty variant: 1.0 - fp_std.
ConsistencyScoreLinear(fp_std) ==
    IF fp_std = Null THEN Half ELSE RSub(One, fp_std)

\* when(fp_std null or NaN).then(0.5).otherwise(1.0 / (fp_std + 1.0))
ConsistencyScore(fp_std) ==
    IF fp_std = Null THEN Half ELSE RDiv(One, RAdd(fp_std, One))

\* The group-by key of a scored row.
GroupKey(r) ==
    [player_id |-> r.player_id, player_name |-> r.player_name,
     season |-> r.season, position |-> r.position]

GroupKeys(rows) == {GroupKey(rows[i]) : i \in 1..Len(rows)}

\* One row of the seasonal table: the aggregates of the rows with key k.
SeasonalRow(rows, k) ==
    LET grp == SelectSeq(rows, LAMBDA r : GroupKey(r) = k)
        fps == NonNullFp(grp)
    IN  [player_id |-> k.player_id, player_name |-> k.player_name,
         season |-> k.season, position |-> k.position,
         total_fp |-> SeqSum(fps),
         avg_fp_per_game |-> Mean(fps),
         games_played |-> Len(grp),
         fp_std |-> Std(fps),
         min_fp |-> SeqMin(fps),
         max_fp |-> SeqMax(fps),
         consistency_score |-> ConsistencyScore(Std(fps))]

\* get_player_seasonal_stats: one row per group.  group_by does not keep
\* any row order, so the table is returned in the order `order` of its keys.
GetPlayerSeasonalStats(frame, order) ==
    [i \in 1..Len(order) |-> SeasonalRow(frame.rows, order[i])]

-----------------------------------------------------------------------------
(* Trend estimator: FantasyPredictor.calculate_trend.                      *)

PlayerData(tbl, player_id) == SelectSeq(tbl, LAMBDA r : r.player_id = player_id)

\* The rows whose avg_fp_per_game is neither None nor NaN.
ValidData(rows) == SelectSeq(rows, LAMBDA r : r.avg_fp_per_game # Null)

RECURSIVE SumSeasons(_)
SumSeasons(rows) ==
    IF rows = <<>> THEN 0 ELSE rows[1].season + SumSeasons(Tail(rows))

RECURSIVE SumSeasonsSq(_)
SumSeasonsSq(rows) ==
    IF rows = <<>> THEN 0
    ELSE rows[1].season * rows[1].season + SumSeasonsSq(Tail(rows))

RECURSIVE SumAvg(_)
SumAvg(rows) ==
    IF rows = <<>> THEN Zero
    ELSE RAdd(rows[1].avg_fp_per_game, SumAvg(Tail(rows)))

RECURSIVE SumSeasonAvg(_)
SumSeasonAvg(rows) ==
    IF rows = <<>> THEN Zero
    ELSE RAdd(RMul(R(rows[1].season), rows[1].avg_fp_per_game),
              SumSeasonAvg(Tail(rows)))

\* A null cell of the season column: like a polars null it passes no season
\* filter (it is below every season) and is a group key of its own; Python
\* arithmetic on the None it becomes raises TypeError.
NoSeason == 0

\* calculate_trend raises TypeError: sum(seasons) is reached (two or more
\* valid entries) with a None among the seasons.
TrendRaises(tbl, player_id) ==
    LET player_data == PlayerData(tbl, player_id)
        valid == ValidData(player_data)
    IN  /\ Len(player_data) >= 2
        /\ Len(valid) >= 2
        /\ \E i \in 1..Len(valid) : valid[i].season = NoSeason

\* Faulty variant: the trend is taken over the lookback window only.
CalculateTrendInWindow(tbl, player_id) ==
    LET player_data == SelectSeq(PlayerData(tbl, player_id),
                                 LAMBDA r : r.season >= 2026 - 3)
        valid == ValidData(player_data)
        n == Len(valid)
        sum_x == SumSeasons(valid)
        sum_y == SumAvg(valid)
        sum_xy == SumSeasonAvg(valid)
        sum_x2 == SumSeasonsSq(valid)
        den == n * sum_x2 - sum_x * sum_x
    IN  IF Len(player_data) < 2 THEN Zero
        ELSE IF n < 2 THEN Zero
        ELSE IF den = 0 THEN Zero
        ELSE RDiv(RSub(RMul(R(n), sum_xy), RMul(R(sum_x), sum_y)), R(den))

\* Faulty variant: an entry without average is taken as one of 0 points
\* instead of being left out.
CalculateTrendNullAsZero(tbl, player_id) ==
    LET player_data == PlayerData(tbl, player_id)
        valid == [i \in 1..Len(player_data) |->
                     IF player_data[i].avg_fp_per_game = Null
                     THEN [player_data[i] EXCEPT !.avg_fp_per_game = Zero]
                     ELSE player_data[i]]
        n == Len(valid)
        sum_x == SumSeasons(valid)
        sum_y == SumAvg(valid)
        sum_xy == SumSeasonAvg(valid)
        sum_x2 == SumSeasonsSq(valid)
        den == n * sum_x2 - sum_x * sum_x
    IN  IF Len(player_data) < 2 THEN Zero
        ELSE IF den = 0 THEN Zero
        ELSE RDiv(RSub(RMul(R(n), sum_xy), RMul(R(sum_x), sum_y)), R(den))

\* Faulty variant: n counts the entries without a valid average too.
CalculateTrendCountingAll(tbl, player_id) ==
    LET player_data == PlayerData(tbl, player_id)
        valid == ValidData(player_data)
        n == Len(player_data)
        sum_x == SumSeasons(valid)
        sum_y == SumAvg(valid)
        sum_xy == SumSeasonAvg(valid)
        sum_x2 == SumSeasonsSq(valid)
        den == n * sum_x2 - sum_x * sum_x
    IN  IF Len(player_data) < 2 THEN Zero
        ELSE IF Len(valid) < 2 THEN Zero
        ELSE IF den = 0 THEN Zero
        ELSE RDiv(RSub(RMul(R(n), sum_xy), RMul(R(sum_x), sum_y)), R(den))

\* calculate_trend.  The sort by season does not change any of the sums.
CalculateTrend(tbl, player_id) ==
    LET player_data == PlayerData(tbl, player_id)
        valid == ValidData(player_data)
        n == Len(valid)
        sum_x == SumSeasons(valid)
        sum_y == SumAvg(valid)
        sum_xy == SumSeasonAvg(valid)
        sum_x2 == SumSeasonsSq(valid)
        den == n * sum_x2 - sum_x * sum_x
    IN  IF Len(player_data) < 2 THEN Zero
        ELSE IF n < 2 THEN Zero
        ELSE IF den = 0 THEN Zero
        ELSE RDiv(RSub(RMul(R(n), sum_xy), RMul(R(sum_x), sum_y)), R(den))

-----------------------------------------------------------------------------
(* Season predictor: FantasyPredictor.predict_player_2026.                 *)

\* recent_data: player_data.filter(season >= target_season - 3)
RecentData(player_data, target_season) ==
    SelectSeq(player_data, LAMBDA r : r.season >= target_season - 3)

\* weights after weights.reverse(): entry i (1-based) of k gets
\* 1.0 + 0.3 * (k - i).
WeightAt(i, k) == RAdd(One, RMul(<<3, 10>>, R(k - i)))

RECURSIVE WeightedSum(_, _, _)
WeightedSum(valid, i, k) ==
    IF i > k THEN Zero
    ELSE RAdd(RMul(valid[i].avg_fp_per_game, WeightAt(i, k)),
              WeightedSum(valid, i + 1, k))

RECURSIVE WeightTotal(_, _)
WeightTotal(i, k) == IF i > k THEN Zero ELSE RAdd(WeightAt(i, k), WeightTotal(i + 1, k))

\* weighted_avg over the valid window entries, in the table's row order.
WeightedAvg(valid) ==
    RDiv(WeightedSum(valid, 1, Len(valid)), WeightTotal(1, Len(valid)))

\* The mean of the window's consistency scores (never null in the table
\* get_player_seasonal_stats builds), 0.5 when there is none.
Consistency(recent) ==
    LET scores == SelectSeq(recent, LAMBDA r : r.consistency_score # Null)
    IN  IF scores = <<>> THEN Half
        ELSE RDiv(SeqSum([i \in 1..Len(scores) |-> scores[i].consistency_score]),
                  R(Len(scores)))

RECURSIVE MaxSeason(_)
MaxSeason(rows) ==
    IF Len(rows) = 1 THEN rows[1].season
    ELSE LET m == MaxSeason(Tail(rows))
         IN  IF rows[1].season > m THEN rows[1].season ELSE m

\* weighted_avg + trend_adjustment + consistency_bonus
RawPredictedFp(tbl, player_id, cfg) ==
    LET recent == RecentData(PlayerData(tbl, player_id), cfg.target_season)
        trend_adjustment ==
            RMul(CalculateTrend(tbl, player_id), Get(cfg, "trend_weight", <<3, 10>>))
        consistency_bonus ==
            RMul(RSub(Consistency(recent), Half), Get(cfg, "consistency_weight", <<1, 5>>))
    IN  RAdd(RAdd(WeightedAvg(ValidData(recent)), trend_adjustment), consistency_bonus)

\* Faulty variant: the floor at zero is left out.
PredictedFpUnclamped(tbl, player_id, cfg) == RawPredictedFp(tbl, player_id, cfg)

\* predicted_fp = max(0.0, predicted_fp), before any rounding.
PredictedFp(tbl, player_id, cfg) == RMax(Zero, RawPredictedFp(tbl, player_id, cfg))

\* Games of the season predicted_fp is projected to.
SeasonGames == 17

\* Faulty variant: a 16-game season.
ProjectSeasonShort(predicted_fp) == RMul(predicted_fp, R(SeasonGames - 1))

\* predicted_season_fp = predicted_fp * 17
ProjectSeason(predicted_fp) == RMul(predicted_fp, R(SeasonGames))

\* predict_player_2026 raises: it gets as far as calculate_trend (the window
\* has a valid entry) and calculate_trend raises.
PredictRaises(tbl, player_id, cfg) ==
    /\ ValidData(RecentData(PlayerData(tbl, player_id), cfg.target_season)) # <<>>
    /\ TrendRaises(tbl, player_id)

\* predict_player_2026: the prediction record, or Null for None.
PredictPlayer2026(tbl, player_id, cfg) ==
    LET player_data == PlayerData(tbl, player_id)
        recent == RecentData(player_data, cfg.target_season)
        valid == ValidData(recent)
        predicted_fp == PredictedFp(tbl, player_id, cfg)
    IN  IF player_data = <<>> THEN Null
        ELSE IF recent = <<>> THEN Null
        ELSE IF valid = <<>> THEN Null
        ELSE [player_id |-> player_id,
              player_name |-> player_data[1].player_name,
              position |-> player_data[1].position,
              predicted_avg_fp_per_game |-> Round(predicted_fp, 100),
              predicted_season_fp |-> Round(ProjectSeason(predicted_fp), 100),
              recent_avg_fp |->
                  Round(Mean([i \in 1..Len(valid) |-> valid[i].avg_fp_per_game]), 100),
              trend |-> Round(CalculateTrend(tbl, player_id), 1000),
              consistency_score |-> Round(Consistency(recent), 1000),
              seasons_analyzed |-> Len(recent),
              last_season |-> MaxSeason(recent)]

-----------------------------------------------------------------------------
(* Prediction orchestrator: FantasyPredictor.predict_all_players.          *)

PlayerIds(tbl) == {tbl[i].player_id : i \in 1..Len(tbl)}

\* season_count of a player: the number of rows the seasonal table has for
\* the player_id (group_by("player_id").agg(pl.count())).
SeasonCount(tbl, player_id) == Len(PlayerData(tbl, player_id))

\* The players with season_count >= min_seasons_played (default 2).
EligibleBySeasons(tbl, cfg) ==
    {pid \in PlayerIds(tbl) :
        SeasonCount(tbl, pid) >= Get(cfg, "min_seasons_played", 2)}

\* position_filters of the configuration ({} when absent) and the positions
\* it enables.
PositionFilters(cfg) == Get(cfg, "position_filters", [p \in {} |-> FALSE])

AllowedPositions(cfg) ==
    {pos \in DOMAIN PositionFilters(cfg) : PositionFilters(cfg)[pos]}

\* eligible_players after the position filter: with any filter enabled, the
\* eligible players that have some seasonal row with an allowed position.
EligiblePlayers(tbl, cfg) ==
    IF AllowedPositions(cfg) # {}
    THEN {pid \in EligibleBySeasons(tbl, cfg) :
             \E i \in 1..Len(tbl) :
                 tbl[i].player_id = pid /\ tbl[i].position \in AllowedPositions(cfg)}
    ELSE EligibleBySeasons(tbl, cfg)

\* predictions_df.sort("predicted_season_fp", descending=True): the rows in
\* non-increasing order; the sort does not keep the order of equal rows
\* (maintain_order is left False).
IsSortedDescending(tbl) ==
    \A i \in 1..(Len(tbl) - 1) :
        RLe(tbl[i + 1].predicted_season_fp, tbl[i].predicted_season_fp)

\* Faulty variant: the table is returned in the order of generation.
Unsorted(preds) == {preds}

SortedDescending(preds) ==
    {t \in Orderings(SeqToSet(preds)) : IsSortedDescending(t)}

-----------------------------------------------------------------------------
(* Inputs of the scoring engine.                                           *)

\* Most null cells in the row of a scoring input.
MaxNulls == 1

\* The value a game row has in each category (a different one in each).
StatValue(c) ==
    CASE c = "passing_yards" -> 250
      [] c = "passing_tds" -> 2
      [] c = "interceptions" -> 1
      [] c = "rushing_yards" -> 30
      [] c = "rushing_tds" -> 3
      [] c = "receptions" -> 5
      [] c = "receiving_yards" -> 40
      [] c = "receiving_tds" -> 7
      [] c = "fumbles_lost" -> 11
      [] c = "two_point_conversions" -> 13

\* A game row with the columns cols: the cells of nulls are null, the others
\* hold mult times the category's value.
GameRow(player_id, player_name, season, position, cols, nulls, mult) ==
    [player_id |-> player_id, player_name |-> player_name,
     season |-> season, position |-> position,
     stats |-> [c \in cols |-> IF c \in nulls THEN Null ELSE R(mult * StatValue(c))]]

\* Frames of two rows over every subset of the ten categories: the first row
\* has up to MaxNulls null cells, the second none.
ScoreFrames ==
    {[cols |-> cols, scored |-> FALSE,
      rows |-> <<GameRow("p1", "A", 2025, "QB", cols, nulls, 1),
                 GameRow("p2", "B", 2025, "RB", cols, {}, 2)>>] :
        cols \in SUBSET Categories,
        nulls \in {n \in SUBSET Categories : Cardinality(n) <= MaxNulls}}


\* The scoring section of the configuration: absent keys take the defaults.
ScoringConfigs ==
    { [c \in {} |-> Zero],
      [c \in {"receptions", "passing_tds"} |->
          IF c = "receptions" THEN One ELSE R(6)] }

\* The prediction section: target_season is required, every other key is
\* read with .get and a default.
TargetSeason == 2026

DefaultPrediction == [target_season |-> TargetSeason]

InitScore ==
    /\ pc = "score"
    /\ df \in ScoreFrames
    /\ config \in {[scoring |-> sc, prediction |-> DefaultPrediction] : sc \in ScoringConfigs}
    /\ seasonal_df = <<>>
    /\ eligible_players = <<>>
    /\ cursor = 0
    /\ predictions = <<>>
    /\ result = Null
    /\ remote = Null
    /\ calls = <<>>
    /\ fs = EmptyFs

\* calculator.calculate_fantasy_points(df)
Score ==
    /\ pc = "score"
    /\ df' = CalculateFantasyPoints(df, config.scoring)
    /\ pc' = "scored"
    /\ UNCHANGED <<config, seasonal_df, eligible_players, cursor, predictions, result, fs, remote, calls>>

NextScore == Score

SpecScore == InitScore /\ [][NextScore]_vars

-----------------------------------------------------------------------------
(* Claims about the scoring engine.                                        *)

\* The weight the active configuration gives category c.
ActiveWeight(scoring, c) ==
    IF c \in DOMAIN scoring THEN scoring[c]
    ELSE ScoringColumns[CHOOSE k \in 1..Len(ScoringColumns) : ScoringColumns[k].col = c].default

\* Sum of value * active weight over the categories cs, cells without a
\* value counting 0.
RECURSIVE WeightedSumOver(_, _, _)
WeightedSumOver(cs, stats, scoring) ==
    IF cs = {} THEN Zero
    ELSE LET c == CHOOSE x \in cs : TRUE
         IN  RAdd(IF stats[c] = Null THEN Zero
                  ELSE RMul(stats[c], ActiveWeight(scoring, c)),
                  WeightedSumOver(cs \ {c}, stats, scoring))

HasAllValues(row) == \A c \in DOMAIN row.stats : row.stats[c] # Null

\* C5: every scored row whose present categories all hold a value has
\* fantasy_points equal to the sum over the present categories of
\* value * active weight; the absent categories add nothing.
C5_WeightedSumOfPresent ==
    pc = "scored" =>
        \A i \in 1..Len(df.rows) :
            HasAllValues(df.rows[i]) =>
                df.rows[i].fantasy_points =
                    WeightedSumOver(df.cols, df.rows[i].stats, config.scoring)

\* A frame lacking some categories and holding others, scored under the
\* custom weights, with a non-zero total.
C5_Witness ==
    /\ pc = "scored"
    /\ df.cols = {"passing_tds", "receptions", "fumbles_lost"}
    /\ "receptions" \in DOMAIN config.scoring
    /\ HasAllValues(df.rows[1])
    /\ df.rows[1].fantasy_points = R(-5)

\* C6: a category without a value (absent column or null cell) contributes
\* 0 and the row's fantasy_points is never null.
C6_MissingValueNeverNull ==
    pc = "scored" =>
        \A i \in 1..Len(df.rows) :
            /\ df.rows[i].fantasy_points # Null
            /\ df.rows[i].fantasy_points =
                   WeightedSumOver(df.cols, df.rows[i].stats, config.scoring)

-----------------------------------------------------------------------------
(* Inputs of the season predictor: seasonal tables of player p1.           *)

\* Most rows of a seasonal table given to predict_player_2026.
MaxSummaries == 3

\* A scored game row.
ScoredRow(player_id, player_name, season, position, fp) ==
    [player_id |-> player_id, player_name |-> player_name,
     season |-> season, position |-> position, fantasy_points |-> fp]

\* Seasons around the target: one before the lookback window, two inside it
\* and the target season itself.
SummarySeasons == {TargetSeason - 4, TargetSeason - 2, TargetSeason - 1, TargetSeason}

\* The games of one (player, season, position) group: a single 10-point
\* game, a single -2-point game, a single game without points, or (as RB)
\* a 12- and a 16-point game.
GroupGames(season, profile) ==
    CASE profile = "ten" -> <<ScoredRow("p1", "A", season, "QB", R(10))>>
      [] profile = "minus" -> <<ScoredRow("p1", "A", season, "QB", R(-2))>>
      [] profile = "none" -> <<ScoredRow("p1", "A", season, "QB", Null)>>
      [] profile = "pair" -> <<ScoredRow("p1", "A2", season, "RB", R(12)),
                               ScoredRow("p1", "A2", season, "RB", R(16))>>

\* The seasonal rows get_player_seasonal_stats builds from those groups.
SummaryRows ==
    {SeasonalRow(GroupGames(season, profile), GroupKey(GroupGames(season, profile)[1])) :
        season \in SummarySeasons, profile \in {"ten", "minus", "none", "pair"}}

\* Seasonal tables: up to MaxSummaries rows with different keys, in any
\* row order.
SummaryTables ==
    UNION {{t \in [1..n -> SummaryRows] :
                \A i, j \in 1..n : i # j => GroupKey(t[i]) # GroupKey(t[j])} :
           n \in 0..MaxSummaries}

PredictionConfigs ==
    { DefaultPrediction,
      [target_season |-> TargetSeason, trend_weight |-> Half, consistency_weight |-> One] }

InitPredict ==
    /\ pc = "predict"
    /\ seasonal_df \in SummaryTables
    /\ config \in {[scoring |-> Null, prediction |-> p] : p \in PredictionConfigs}
    /\ df = Null
    /\ eligible_players = <<>>
    /\ cursor = 0
    /\ predictions = <<>>
    /\ result = Null
    /\ remote = Null
    /\ calls = <<>>
    /\ fs = EmptyFs

\* predict_player_2026(seasonal_df, "p1")
Predict ==
    /\ pc = "predict"
    /\ result' = [value |-> PredictPlayer2026(seasonal_df, "p1", config.prediction)]
    /\ pc' = "predicted"
    /\ UNCHANGED <<config, df, seasonal_df, eligible_players, cursor, predictions, fs, remote, calls>>

NextPredict == Predict

SpecPredict == InitPredict /\ [][NextPredict]_vars

-----------------------------------------------------------------------------
(* Claims about the season predictor.                                      *)

\* The window entries with a valid average, in the table's row order.
ValidWindow == ValidData(RecentData(PlayerData(seasonal_df, "p1"),
                                    config.prediction.target_season))

Predicted == pc = "predicted" /\ ~IsNone(result.value)

DistinctSeasons(rows) ==
    \A i, j \in 1..Len(rows) : i # j => rows[i].season # rows[j].season

\* The number of entries of rows that are older than entry i.
OlderThan(rows, i) == Cardinality({j \in 1..Len(rows) : rows[j].season < rows[i].season})

\* The weight-normalised mean in which an entry with r older entries weighs
\* 1.0 + 0.3 * r.
RecencyWeightedAvg(rows) ==
    RDiv(SeqSum([i \in 1..Len(rows) |->
                    RMul(rows[i].avg_fp_per_game,
                         RAdd(One, RMul(<<3, 10>>, R(OlderThan(rows, i))))) ]),
         SeqSum([i \in 1..Len(rows) |-> RAdd(One, RMul(<<3, 10>>, R(i - 1)))]))

\* C1: among the valid window entries (of different seasons), the most
\* recent season's entry has the largest weight 1.0 + 0.3*(k-1), the oldest
\* the weight 1.0, and weighted_avg is the mean under these recency weights,
\* whatever the row order of the table.
C1_MostRecentWeighsMost ==
    (pc = "predicted" /\ Len(ValidWindow) >= 1 /\ DistinctSeasons(ValidWindow)) =>
        LET k == Len(ValidWindow)
        IN  /\ \A i \in 1..k :
                   /\ ValidWindow[i].season = MaxSeason(ValidWindow) =>
                          WeightAt(i, k) = RAdd(One, RMul(<<3, 10>>, R(k - 1)))
                   /\ OlderThan(ValidWindow, i) = 0 => WeightAt(i, k) = One
            /\ WeightedAvg(ValidWindow) = RecencyWeightedAvg(ValidWindow)

\* C2: every summary the prediction uses lies in the three seasons before
\* the target: target_season - 3 <= season < target_season, and so does
\* the reported last_season.
C2_WindowBeforeTarget ==
    Predicted =>
        LET target == config.prediction.target_season
            recent == RecentData(PlayerData(seasonal_df, "p1"), target)
        IN  /\ \A i \in 1..Len(recent) :
                   target - 3 <= recent[i].season /\ recent[i].season < target
            /\ result.value.last_season < target

\* The fields of a prediction that C7 names.
Core(p) ==
    IF IsNone(p) THEN Null
    ELSE <<p.predicted_avg_fp_per_game, p.predicted_season_fp, p.player_name, p.position>>

\* C7: the prediction is the same for every row order of the seasonal table.
C7_RowOrderIndependent ==
    pc = "predicted" =>
        \A t \in Orderings(SeqToSet(seasonal_df)) :
            Core(PredictPlayer2026(t, "p1", config.prediction)) = Core(result.value)

\* C8 as stated: the predicted_season_fp field is 17 times the
\* predicted_avg_fp_per_game field.
C8_SeasonFpIsFieldTimes17 ==
    Predicted =>
        result.value.predicted_season_fp =
            RMul(result.value.predicted_avg_fp_per_game, R(17))

\* C8 amended: predicted_season_fp is 17 times the unrounded prediction,
\* rounded to 2 decimals; it is within 0.09 of 17 times the rounded
\* predicted_avg_fp_per_game field, and equal to it when the unrounded
\* prediction has at most 2 decimals.
C8_SeasonFpIsRoundedProduct ==
    Predicted =>
        LET fp == RMax(Zero, RawPredictedFp(seasonal_df, "p1", config.prediction))
            avg == result.value.predicted_avg_fp_per_game
            season == result.value.predicted_season_fp
            diff == RSub(season, RMul(avg, R(17)))
        IN  /\ season = Round(RMul(fp, R(17)), 100)
            /\ RLe(diff, <<9, 100>>) /\ RLe(RNeg(diff), <<9, 100>>)
            /\ Round(fp, 100) = fp => season = RMul(avg, R(17))

\* A prediction whose unrounded value has more than 2 decimals, so that the
\* two rounded fields are not in the ratio 17.
C8_Witness ==
    /\ Predicted
    /\ result.value.predicted_season_fp #
           RMul(result.value.predicted_avg_fp_per_game, R(17))

\* C9: the predicted average and the predicted season total are never
\* negative: the average is max(0, weighted_avg + trend * trend_weight +
\* (consistency - 0.5) * consistency_weight), rounded.
C9_NeverNegative ==
    Predicted =>
        /\ RLe(Zero, result.value.predicted_avg_fp_per_game)
        /\ RLe(Zero, result.value.predicted_season_fp)
        /\ result.value.predicted_avg_fp_per_game =
               Round(RMax(Zero, RawPredictedFp(seasonal_df, "p1", config.prediction)), 100)

\* A prediction whose sum of weighted average, trend adjustment and
\* consistency bonus is negative and is reported as 0.
C9_Witness ==
    /\ Predicted
    /\ RLt(RawPredictedFp(seasonal_df, "p1", config.prediction), <<-1, 1>>)
    /\ CalculateTrend(seasonal_df, "p1")[1] < 0
    /\ result.value.predicted_avg_fp_per_game = Zero
    /\ result.value.predicted_season_fp = Zero

-----------------------------------------------------------------------------
(* predict_all_players over the data sets of two players.                  *)

\* Most game rows of a data set.
MaxGames == 3

\* The stat columns of the player-stats file of these data sets.
StatsCols == {"rushing_yards"}

\* The game rows a data set is drawn from, enumerated: p1 plays the seasons
\* 2024 and 2025 as QB or RB (rows 1..8) with 30 or 60 rushing yards a game;
\* p2 plays as RB: a 30-yard game in 2022 (before the lookback window, row
\* 9), a 60-yard game without season (row 10), a 30-yard game in 2025 (row
\* 11) and a game in 2025 whose rushing_yards cell is null (row 12).
GameRowSeq ==
    [i \in 1..12 |->
        IF i <= 8
        THEN GameRow("p1", "A", TargetSeason - 2 + ((i - 1) \div 4),
                     IF ((i - 1) \div 2) % 2 = 0 THEN "QB" ELSE "RB",
                     StatsCols, {}, 1 + ((i - 1) % 2))
        ELSE GameRow("p2", "B",
                     IF i = 9 THEN TargetSeason - 4
                     ELSE IF i = 10 THEN NoSeason ELSE TargetSeason - 1,
                     "RB", StatsCols, IF i = 12 THEN StatsCols ELSE {},
                     1 + ((i - 1) % 2))]

\* Data sets: up to MaxGames game rows (repetitions allowed).
DataSets ==
    UNION {{[i \in 1..n |-> GameRowSeq[idx[i]]] :
               idx \in {f \in [1..n -> 1..Len(GameRowSeq)] :
                           \A i \in 1..(n - 1) : f[i] <= f[i + 1]}} :
           n \in 0..MaxGames}

OrchestratorConfigs ==
    { DefaultPrediction,
      [target_season |-> TargetSeason, min_seasons_played |-> 1],
      [target_season |-> TargetSeason,
       position_filters |-> [pos \in {"QB", "RB", "WR", "TE"} |-> pos = "QB"]] }

\* data_dir / "player_stats" / "player_stats.parquet"
StatsFile == [path |-> "player_stats/player_stats.parquet", encoding |-> "parquet"]

\* The player-stats file is on disk, holding one of the data sets, or it is
\* not (df is then Null: there is nothing to read).
Init ==
    /\ pc = "start"
    /\ \/ /\ fs = [dirs |-> {"player_stats"}, files |-> {StatsFile}]
          /\ df \in {[cols |-> StatsCols, scored |-> FALSE, rows |-> rows] :
                        rows \in DataSets}
       \/ /\ fs = EmptyFs
          /\ df = Null
    /\ config \in {[scoring |-> Null, prediction |-> p] : p \in OrchestratorConfigs}
    /\ seasonal_df = <<>>
    /\ eligible_players = <<>>
    /\ cursor = 0
    /\ predictions = <<>>
    /\ result = Null
    /\ remote = Null
    /\ calls = <<>>

\* Faulty variant: a missing file is read as an empty one and the call
\* goes on to its loop.
LoadNothingOnMissingData ==
    /\ pc = "start"
    /\ StatsFile \notin fs.files
    /\ pc' = "loop"
    /\ UNCHANGED <<config, df, seasonal_df, eligible_players, cursor, predictions, result, fs, remote, calls>>

\* load_player_stats without the player-stats file: FileNotFoundError, and
\* predict_all_players ends with it.
RaiseMissingData ==
    /\ pc = "start"
    /\ StatsFile \notin fs.files
    /\ result' = [status |-> "FileNotFoundError", table |-> <<>>,
                  message |-> "Player stats not found. Please run data_fetch first to download data."]
    /\ pc' = "done"
    /\ UNCHANGED <<config, df, seasonal_df, eligible_players, cursor, predictions, fs, remote, calls>>

\* predict_all_players up to its loop: load and score the player stats
\* (the positions of these data sets are scalar strings, which the load
\* leaves as they are), aggregate them by season (in any row order) and
\* list the eligible players (in any order).
LoadAndSelect ==
    /\ pc = "start"
    /\ StatsFile \in fs.files
    /\ df' = CalculateFantasyPoints(df, config.scoring)
    /\ \E order \in Orderings(GroupKeys(df.rows)) :
           /\ seasonal_df' = GetPlayerSeasonalStats(df', order)
           /\ eligible_players' \in
                  Orderings(EligiblePlayers(seasonal_df', config.prediction))
    /\ predictions' = <<>>
    /\ cursor' = 0
    /\ pc' = "loop"
    /\ UNCHANGED <<config, result, fs, remote, calls>>

\* Faulty variant: without the try/except an exception of
\* predict_player_2026 ends the call.
PredictNextPlayerUncaught ==
    /\ pc = "loop"
    /\ cursor < Len(eligible_players)
    /\ LET player_id == eligible_players[cursor + 1]
           prediction == PredictPlayer2026(seasonal_df, player_id, config.prediction)
       IN  IF PredictRaises(seasonal_df, player_id, config.prediction)
           THEN /\ result' = [status |-> "TypeError", table |-> <<>>]
                /\ pc' = "done"
                /\ UNCHANGED <<predictions, cursor, remote, calls>>
           ELSE /\ predictions' = IF IsNone(prediction) THEN predictions
                                  ELSE Append(predictions, prediction)
                /\ cursor' = cursor + 1
                /\ UNCHANGED <<pc, result, remote, calls>>
    /\ UNCHANGED <<config, df, seasonal_df, eligible_players, fs, remote, calls>>

\* Faulty variant: a prediction of None ends the loop (break for continue).
PredictNextPlayerBreaksOnNone ==
    /\ pc = "loop"
    /\ cursor < Len(eligible_players)
    /\ LET player_id == eligible_players[cursor + 1]
           prediction == PredictPlayer2026(seasonal_df, player_id, config.prediction)
       IN  IF PredictRaises(seasonal_df, player_id, config.prediction)
           THEN predictions' = predictions /\ cursor' = cursor + 1
           ELSE IF IsNone(prediction)
           THEN predictions' = predictions /\ cursor' = Len(eligible_players)
           ELSE predictions' = Append(predictions, prediction) /\ cursor' = cursor + 1
    /\ UNCHANGED <<pc, config, df, seasonal_df, eligible_players, result, fs, remote, calls>>

\* One turn of the loop over eligible_players: the prediction is appended
\* unless it is None; an exception is logged and the loop continues.
PredictNextPlayer ==
    /\ pc = "loop"
    /\ cursor < Len(eligible_players)
    /\ LET player_id == eligible_players[cursor + 1]
           prediction == PredictPlayer2026(seasonal_df, player_id, config.prediction)
       IN  predictions' =
               IF PredictRaises(seasonal_df, player_id, config.prediction)
               THEN predictions
               ELSE IF IsNone(prediction) THEN predictions
               ELSE Append(predictions, prediction)
    /\ cursor' = cursor + 1
    /\ UNCHANGED <<pc, config, df, seasonal_df, eligible_players, result, fs, remote, calls>>

\* After the loop, without predictions: ValueError("No predictions generated").
RaiseNoPredictions ==
    /\ pc = "loop"
    /\ cursor = Len(eligible_players)
    /\ predictions = <<>>
    /\ result' = [status |-> "ValueError", table |-> <<>>,
                  message |-> "No predictions generated. Check data and filters."]
    /\ pc' = "done"
    /\ UNCHANGED <<config, df, seasonal_df, eligible_players, cursor, predictions, fs, remote, calls>>

\* Faulty variant: the table is returned even when it is empty.
ReturnSortedOrEmpty ==
    /\ pc = "loop"
    /\ cursor = Len(eligible_players)
    /\ \E t \in SortedDescending(predictions) :
           result' = [status |-> "ok", table |-> t]
    /\ pc' = "done"
    /\ UNCHANGED <<config, df, seasonal_df, eligible_players, cursor, predictions, fs, remote, calls>>

\* After the loop, with predictions: the sorted table is returned.
ReturnSorted ==
    /\ pc = "loop"
    /\ cursor = Len(eligible_players)
    /\ predictions # <<>>
    /\ \E t \in SortedDescending(predictions) :
           result' = [status |-> "ok", table |-> t]
    /\ pc' = "done"
    /\ UNCHANGED <<config, df, seasonal_df, eligible_players, cursor, predictions, fs, remote, calls>>

Next ==
    \/ RaiseMissingData
    \/ LoadAndSelect
    \/ PredictNextPlayer
    \/ RaiseNoPredictions
    \/ ReturnSorted

Spec == Init /\ [][Next]_vars

-----------------------------------------------------------------------------
(* Claims about the orchestrator and the seasonal table it builds.         *)

Selected == pc \in {"loop", "done"}

\* The seasons for which the player has game records (and so a summary).
SeasonsPlayed(player_id) ==
    {df.rows[i].season : i \in {j \in 1..Len(df.rows) : df.rows[j].player_id = player_id}}

\* C3: without a position filter, a player is eligible exactly when the
\* number of distinct seasons with a seasonal summary of the player is
\* >= min_seasons_played (default 2).
C3_EligibleByDistinctSeasons ==
    (Selected /\ AllowedPositions(config.prediction) = {}) =>
        \A pid \in PlayerIds(df.rows) :
            pid \in SeqToSet(eligible_players) <=>
                Cardinality(SeasonsPlayed(pid)) >=
                    Get(config.prediction, "min_seasons_played", 2)

\* No player has two seasonal rows for one season.
OneRowPerPlayerSeason ==
    \A i, j \in 1..Len(seasonal_df) :
        (seasonal_df[i].player_id = seasonal_df[j].player_id
         /\ seasonal_df[i].season = seasonal_df[j].season) => i = j

\* C4: with a position filter enabled, every row of the returned table has
\* a position of the enabled set (also for a player whose position differs
\* from one season to another, each season having one position).
C4_OnlyEnabledPositions ==
    (/\ pc = "done" /\ result.status = "ok"
     /\ AllowedPositions(config.prediction) # {}
     /\ OneRowPerPlayerSeason) =>
        \A i \in 1..Len(result.table) :
            result.table[i].position \in AllowedPositions(config.prediction)

\* C10: the seasonal table has exactly one row for every (player_id, season)
\* pair of the game records, and no other row.
C10_OneRowPerPlayerSeason ==
    Selected =>
        /\ OneRowPerPlayerSeason
        /\ {<<seasonal_df[i].player_id, seasonal_df[i].season>> : i \in 1..Len(seasonal_df)}
               = {<<df.rows[i].player_id, df.rows[i].season>> : i \in 1..Len(df.rows)}

-----------------------------------------------------------------------------
(* Claims about the loop of predict_all_players and what it returns.       *)

\* predict_player_2026 gives no record for the player: it raises or it
\* returns None.
Fails(player_id) ==
    IF PredictRaises(seasonal_df, player_id, config.prediction) THEN TRUE
    ELSE IsNone(PredictPlayer2026(seasonal_df, player_id, config.prediction))

\* The seasonal table without the rows of the players pids.
WithoutPlayers(tbl, pids) == SelectSeq(tbl, LAMBDA r : r.player_id \notin pids)

\* The records of the first k eligible players, in the order of the list,
\* each computed on the table tbl; the failing players give none.
RECURSIVE RecordsOfOthers(_, _)
RecordsOfOthers(tbl, k) ==
    IF k = 0 THEN <<>>
    ELSE IF Fails(eligible_players[k]) THEN RecordsOfOthers(tbl, k - 1)
    ELSE Append(RecordsOfOthers(tbl, k - 1),
                PredictPlayer2026(tbl, eligible_players[k], config.prediction))

FailingPlayers == {pid \in SeqToSet(eligible_players) : Fails(pid)}

\* C12: a player whose prediction raises or is None is left out and the
\* loop goes on: it handles every eligible player, the call ends with the
\* table or the no-predictions error, and the records of the other players
\* are those computed on the data without the failing players.
C12_FailingPlayerSkipped ==
    (pc = "done" /\ StatsFile \in fs.files) =>
        /\ cursor = Len(eligible_players)
        /\ result.status \in {"ok", "ValueError"}
        /\ predictions =
               RecordsOfOthers(WithoutPlayers(seasonal_df, FailingPlayers), cursor)

\* The loop met a player whose prediction raised, then predicted another
\* player, whose record is in the returned table.
C12_Witness ==
    /\ pc = "done"
    /\ result.status = "ok"
    /\ Len(eligible_players) = 2
    /\ PredictRaises(seasonal_df, eligible_players[1], config.prediction)
    /\ Len(result.table) = 1
    /\ result.table[1].player_id = eligible_players[2]

\* C13: after the loop, the no-predictions error is raised exactly when no
\* prediction was produced; a returned table is never empty.
C13_ErrorIffNoPredictions ==
    (pc = "done" /\ StatsFile \in fs.files) =>
        /\ result.status = "ValueError" <=> predictions = <<>>
        /\ result.status = "ok" <=> predictions # <<>>
        /\ result.status = "ok" => result.table # <<>>
        /\ result.status = "ValueError" =>
               result.message = "No predictions generated. Check data and filters."

\* The error raised although a player was eligible: the only eligible
\* player was skipped.
C13_Witness ==
    /\ pc = "done"
    /\ result.status = "ValueError"
    /\ Len(eligible_players) = 1
    /\ cursor = 1

\* C14: the returned table is in non-increasing order of
\* predicted_season_fp and its rows are exactly the generated predictions.
C14_SortedSameRows ==
    (pc = "done" /\ result.status = "ok") =>
        /\ \A i \in 1..(Len(result.table) - 1) :
               ~RLt(result.table[i].predicted_season_fp,
                    result.table[i + 1].predicted_season_fp)
        /\ Len(result.table) = Len(predictions)
        /\ \A i \in 1..Len(predictions) :
               Cardinality({j \in 1..Len(result.table) : result.table[j] = predictions[i]})
                   = Cardinality({j \in 1..Len(predictions) : predictions[j] = predictions[i]})

\* Two predictions generated in increasing order and returned in
\* decreasing order.
C14_Witness ==
    /\ pc = "done"
    /\ result.status = "ok"
    /\ Len(predictions) = 2
    /\ RLt(predictions[1].predicted_season_fp, predictions[2].predicted_season_fp)
    /\ result.table = <<predictions[2], predictions[1]>>

\* The place of record r in the returned table.
PlaceOf(r) == CHOOSE j \in 1..Len(result.table) : result.table[j] = r

\* C15: predictions with equal predicted_season_fp are returned in the
\* order in which they were generated.
C15_TiesKeepGenerationOrder ==
    (pc = "done" /\ result.status = "ok") =>
        \A i, j \in 1..Len(predictions) :
            (i < j /\ predictions[i].predicted_season_fp
                          = predictions[j].predicted_season_fp)
                => PlaceOf(predictions[i]) < PlaceOf(predictions[j])

\* C19: without the player-stats file predict_all_players ends at once with
\* the missing-data error and its hint to run data_fetch first: nothing is
\* scored, aggregated or predicted and no table is returned.
C19_MissingFileFailsAtOnce ==
    /\ (pc = "done" /\ StatsFile \notin fs.files) =>
           /\ result.status = "FileNotFoundError"
           /\ result.message =
                  "Player stats not found. Please run data_fetch first to download data."
           /\ result.table = <<>>
           /\ df = Null
           /\ seasonal_df = <<>>
           /\ eligible_players = <<>>
           /\ predictions = <<>>
    /\ StatsFile \notin fs.files => pc \in {"start", "done"}

\* The call has ended on the missing file.
C19_Witness ==
    /\ pc = "done"
    /\ StatsFile \notin fs.files
    /\ result.status = "FileNotFoundError"

-----------------------------------------------------------------------------
(* The position column from the player-stats file to the prediction        *)
(* records: load_player_stats, get_player_seasonal_stats and               *)
(* predict_player_2026.                                                    *)
(*                                                                         *)
(* A position cell is Null, a string <<"str", s>>, a list of strings       *)
(* <<"list", items>>, or the string that str() makes of a list,            *)
(* <<"repr", items>> ("[]" for the empty list).                            *)

Str(s) == <<"str", s>>

ListOf(items) == <<"list", items>>

IsList(x) == x # Null /\ x[1] = "list"

IsPlainString(x) == x # Null /\ x[1] = "str"

\* str(x) of a cell that is not None: a string is itself, a list becomes its
\* textual form.
StrOf(x) == IF IsList(x) THEN <<"repr", x[2]>> ELSE x

\* The function load_player_stats maps over the position column:
\*   x[0] if isinstance(x, list) and len(x) > 0
\*   else (str(x) if x is not None else "UNK")
PositionLambda(x) ==
    IF IsList(x) /\ Len(x[2]) > 0 THEN Str(x[2][1])
    ELSE IF x # Null THEN StrOf(x)
    ELSE Str("UNK")

\* pl.col("position").map_elements(lambda, return_dtype=pl.Utf8): the
\* function is applied to the cells that are not null (skip_nulls is left
\* at its default), a null cell stays null.
NormalizePosition(x) == IF x = Null THEN Null ELSE PositionLambda(x)

\* load_player_stats: the position column is mapped, then the frame scored.
LoadFrame(frame, scoring) ==
    CalculateFantasyPoints(
        [frame EXCEPT !.rows =
            [i \in 1..Len(frame.rows) |->
                [frame.rows[i] EXCEPT !.position = NormalizePosition(@)]]],
        scoring)

\* predict_player_2026, the position of the record: the first element of a
\* list ("UNK" for an empty one), "UNK" for None, str() of anything else.
PositionOf(position_raw) ==
    IF IsList(position_raw)
    THEN (IF Len(position_raw[2]) > 0 THEN Str(position_raw[2][1]) ELSE Str("UNK"))
    ELSE IF position_raw = Null THEN Str("UNK")
    ELSE StrOf(position_raw)

\* Longest list in a position cell of the file.
MaxPositions == 2

\* The position cells of a player-stats file.
RawPositions ==
    {Null} \cup {Str(s) : s \in {"QB", "RB"}}
           \cup {ListOf(l) : l \in UNION {[1..n -> {"QB", "RB"}] : n \in 0..MaxPositions}}

\* Files of two games of player p1 in one season, with any position cells.
RawFrames ==
    {[cols |-> StatsCols, scored |-> FALSE,
      rows |-> <<GameRow("p1", "A", TargetSeason - 1, a, StatsCols, {}, 1),
                 GameRow("p1", "A", TargetSeason - 1, b, StatsCols, {}, 2)>>] :
        a \in RawPositions, b \in RawPositions}

InitLoad ==
    /\ pc = "load"
    /\ df \in RawFrames
    /\ config = [scoring |-> Null, prediction |-> DefaultPrediction]
    /\ seasonal_df = <<>>
    /\ eligible_players = <<>>
    /\ cursor = 0
    /\ predictions = <<>>
    /\ result = Null
    /\ remote = Null
    /\ calls = <<>>
    /\ fs = EmptyFs

\* load_player_stats()
LoadPlayerStats ==
    /\ pc = "load"
    /\ df' = LoadFrame(df, config.scoring)
    /\ pc' = "loaded"
    /\ UNCHANGED <<config, seasonal_df, eligible_players, cursor, predictions, result, fs, remote, calls>>

\* get_player_seasonal_stats(df): the casts to Utf8 leave the strings and
\* the nulls of the loaded column as they are.
AggregateLoaded ==
    /\ pc = "loaded"
    /\ \E order \in Orderings(GroupKeys(df.rows)) :
           seasonal_df' = GetPlayerSeasonalStats(df, order)
    /\ pc' = "aggregated"
    /\ UNCHANGED <<config, df, eligible_players, cursor, predictions, result, fs, remote, calls>>

\* predict_player_2026(seasonal_df, "p1")
PredictLoaded ==
    /\ pc = "aggregated"
    /\ result' = [value |->
                     [PredictPlayer2026(seasonal_df, "p1", config.prediction)
                         EXCEPT !.position = PositionOf(@)]]
    /\ pc' = "predicted"
    /\ UNCHANGED <<config, df, seasonal_df, eligible_players, cursor, predictions, fs, remote, calls>>

NextLoad ==
    \/ LoadPlayerStats
    \/ AggregateLoaded
    \/ PredictLoaded

SpecLoad == InitLoad /\ [][NextLoad]_vars

-----------------------------------------------------------------------------
(* Claims about the position column.                                       *)

\* The single string a position cell stands for: the first element of a
\* non-empty list, the scalar itself, "UNK" for null and the empty list.
SinglePosition(x) ==
    IF IsList(x) /\ Len(x[2]) > 0 THEN Str(x[2][1])
    ELSE IF IsPlainString(x) THEN x
    ELSE Str("UNK")

\* C11: loading turns every position cell into its single string (first
\* element of a non-empty list, the scalar itself, "UNK" for null or an
\* empty list), so that only plain strings reach the aggregation and the
\* prediction records.
C11_PositionNormalisedAtLoad ==
    /\ [][LoadPlayerStats =>
            \A i \in 1..Len(df.rows) :
                df'.rows[i].position = SinglePosition(df.rows[i].position)]_vars
    /\ [](pc = "aggregated" =>
            \A i \in 1..Len(seasonal_df) : IsPlainString(seasonal_df[i].position))
    /\ [](pc = "predicted" => IsPlainString(result.value.position))

-----------------------------------------------------------------------------
(* The top-N accessor: FantasyPredictor.get_top_players, and its use by    *)
(* predict_fantasy_players.                                                *)

\* Faulty variant: one row short.
HeadRowsShort(tbl, n) == SubSeq(tbl, 1, IF n - 1 < Len(tbl) THEN n - 1 ELSE Len(tbl))

\* predictions_df.head(n): the first n rows; for a negative n, all rows but
\* the last -n.
HeadRows(tbl, n) ==
    IF n >= 0 THEN SubSeq(tbl, 1, IF n < Len(tbl) THEN n ELSE Len(tbl))
    ELSE SubSeq(tbl, 1, IF Len(tbl) + n > 0 THEN Len(tbl) + n ELSE 0)

\* self.config["output"].get("top_n_players", 50)
DefaultTopN == 50

\* A call's optional argument n: the record [n |-> k], or the empty record
\* when n is left None.
NoArg == [a \in {} |-> 0]

\* Faulty variant: without n, every row is returned.
GetTopPlayersAllRows(predictions_df, call, output) ==
    IF "n" \in DOMAIN call THEN HeadRows(predictions_df, call.n) ELSE predictions_df

\* get_top_players(predictions_df, n)
GetTopPlayers(predictions_df, call, output) ==
    LET n == IF "n" \in DOMAIN call THEN call.n
             ELSE Get(output, "top_n_players", DefaultTopN)
    IN  HeadRows(predictions_df, n)

\* predict_fantasy_players, step 5: "if top_n:" calls the accessor, else
\* top_players is the whole table.
TopPlayers(predictions_df, call, output) ==
    IF "n" \in DOMAIN call /\ call.n # 0
    THEN GetTopPlayers(predictions_df, call, output)
    ELSE predictions_df

\* Most rows of a table given to the accessor (more than the default N).
MaxRows == 52

\* The sorted table of len rows: row i is player i with a season total of
\* MaxRows + 1 - i points.
SortedTable(len) ==
    [i \in 1..len |-> [player_id |-> i, predicted_season_fp |-> R(MaxRows + 1 - i)]]

\* The calls: n left out, or n from -1 to 3 or one below MaxRows.
TopCalls == {NoArg} \cup {[n |-> k] : k \in (-1..3) \cup {MaxRows - 1}}

\* The output section of the configuration, with or without top_n_players.
OutputConfigs == {NoArg, [top_n_players |-> 2]}

InitTop ==
    /\ pc = "top"
    /\ predictions \in {SortedTable(len) : len \in 0..MaxRows}
    /\ config \in {[scoring |-> Null, prediction |-> DefaultPrediction, output |-> o] :
                      o \in OutputConfigs}
    /\ df = Null
    /\ seasonal_df = <<>>
    /\ eligible_players = <<>>
    /\ cursor = 0
    /\ result = Null
    /\ remote = Null
    /\ calls = <<>>
    /\ fs = EmptyFs

\* predictor.get_top_players(predictions_df, n)
CallGetTopPlayers ==
    /\ pc = "top"
    /\ \E call \in TopCalls :
           result' = [via |-> "get_top_players", call |-> call,
                      table |-> GetTopPlayers(predictions, call, config.output)]
    /\ pc' = "topped"
    /\ UNCHANGED <<config, df, seasonal_df, eligible_players, cursor, predictions, fs, remote, calls>>

\* predict_fantasy_players(top_n=n), its top_players
CallPredictFantasyPlayers ==
    /\ pc = "top"
    /\ \E call \in TopCalls :
           result' = [via |-> "predict_fantasy_players", call |-> call,
                      table |-> TopPlayers(predictions, call, config.output)]
    /\ pc' = "topped"
    /\ UNCHANGED <<config, df, seasonal_df, eligible_players, cursor, predictions, fs, remote, calls>>

NextTop ==
    \/ CallGetTopPlayers
    \/ CallPredictFantasyPlayers

SpecTop == InitTop /\ [][NextTop]_vars

-----------------------------------------------------------------------------
(* Claims about the top-N accessor.                                        *)

\* tbl is the first k rows of predictions (all of them when k is larger).
IsFirstRows(tbl, k) ==
    /\ Len(tbl) = (IF k < Len(predictions) THEN k ELSE Len(predictions))
    /\ \A i \in 1..Len(tbl) : tbl[i] = predictions[i]

\* C16: get_top_players with an explicit n >= 1 returns the first
\* min(n, number of rows) rows of the table, in order and unchanged, and
\* does not modify the table it is given.
C16_FirstNRows ==
    [][(pc = "top" /\ result'.via = "get_top_players") =>
          /\ predictions' = predictions
          /\ ("n" \in DOMAIN result'.call /\ result'.call.n >= 1) =>
                 IsFirstRows(result'.table, result'.call.n)]_vars

\* The accessor called with n = 3 on a longer table and on a shorter one.
C16_Witness ==
    /\ pc = "topped"
    /\ result.via = "get_top_players"
    /\ "n" \in DOMAIN result.call
    /\ result.call.n = 3
    /\ Len(predictions) \in {2, 5}
    /\ Len(result.table) = (IF Len(predictions) = 2 THEN 2 ELSE 3)

\* C17 as stated: get_top_players without n returns every row of the
\* table, however many there are.
C17_NoneReturnsAllRows ==
    (pc = "topped" /\ result.via = "get_top_players" /\ "n" \notin DOMAIN result.call)
        => result.table = predictions

\* C17 as the code has it: get_top_players without n returns the first K
\* rows, K being the configured top_n_players (50 when not configured), so
\* every row only when there are at most K; predict_fantasy_players without
\* top_n does not call the accessor and gives every row.
C17_NoneUsesConfiguredN ==
    (pc = "topped" /\ "n" \notin DOMAIN result.call) =>
        /\ result.via = "get_top_players" =>
               IsFirstRows(result.table,
                           IF "top_n_players" \in DOMAIN config.output
                           THEN config.output.top_n_players ELSE 50)
        /\ result.via = "predict_fantasy_players" => result.table = predictions

\* Without n and without a configured top_n_players, a table of more than
\* 50 rows is cut to 50.
C17_Witness ==
    /\ pc = "topped"
    /\ result.via = "get_top_players"
    /\ "n" \notin DOMAIN result.call
    /\ "top_n_players" \notin DOMAIN config.output
    /\ Len(predictions) > 50
    /\ Len(result.table) = 50

-----------------------------------------------------------------------------
(* Persistence: FantasyPredictor.save_predictions and                      *)
(* data_fetch.utils.save_dataframe.                                        *)

\* format.lower()
Lower(format) == IF format = "PARQUET" THEN "parquet" ELSE format

\* ensure_directory(path) / mkdir(parents=True, exist_ok=True)
EnsureDirectory(files, dir) == [files EXCEPT !.dirs = @ \cup {dir}]

\* df.write_parquet / write_csv / write_json(output_path): the file at path
\* is created or replaced.
WriteFile(files, path, encoding, rows) ==
    [files EXCEPT !.files =
        {f \in @ : f.path # path}
            \cup {[path |-> path, encoding |-> encoding, rows |-> rows]}]

\* save_dataframe(df, output_path, format): the directory is ensured, then
\* the format decides between the three writers and ValueError.  The
\* outcome is the status with the file system it leaves.
SaveDataframe(files, rows, path, format) ==
    LET ensured == EnsureDirectory(files, path[1])
    IN  IF Lower(format) \in {"parquet", "csv", "json"}
        THEN [status |-> "ok", fs |-> WriteFile(ensured, path, Lower(format), rows)]
        ELSE [status |-> "ValueError: Unsupported format", fs |-> ensured]

\* save_predictions(predictions_df): the output directory is made, the file
\* is predictions_2026.<format>; parquet and csv have their writer, every
\* other format is written as JSON.
SavePredictions(files, rows, output) ==
    LET output_format == Get(output, "format", "parquet")
        output_path == <<output.directory, "predictions_2026", output_format>>
        made == EnsureDirectory(files, output.directory)
    IN  [status |-> "ok",
         fs |-> WriteFile(made, output_path,
                          IF output_format \in {"parquet", "csv"} THEN output_format
                          ELSE "json",
                          rows)]

\* The formats a caller may ask for.
Formats == {"parquet", "csv", "json", "xlsx", "PARQUET"}

\* The output section for save_predictions: a directory, with or without a
\* format.
SaveConfigs ==
    {[directory |-> "predictions"]}
        \cup {[directory |-> "predictions", format |-> f] : f \in Formats}

InitSave ==
    /\ pc = "save"
    /\ fs \in {EmptyFs, [dirs |-> {"predictions"}, files |-> {}]}
    /\ predictions \in {SortedTable(len) : len \in 0..2}
    /\ config \in {[scoring |-> Null, prediction |-> DefaultPrediction, output |-> o] :
                      o \in SaveConfigs}
    /\ df = Null
    /\ seasonal_df = <<>>
    /\ eligible_players = <<>>
    /\ cursor = 0
    /\ result = Null
    /\ remote = Null
    /\ calls = <<>>

\* predictor.save_predictions(predictions_df)
CallSavePredictions ==
    /\ pc = "save"
    /\ LET out == SavePredictions(fs, predictions, config.output)
       IN  /\ fs' = out.fs
           /\ result' = [via |-> "save_predictions",
                         format |-> Get(config.output, "format", "parquet"),
                         status |-> out.status]
    /\ pc' = "saved"
    /\ UNCHANGED <<config, df, seasonal_df, eligible_players, cursor, predictions, remote, calls>>

\* save_dataframe(df, "predictions/table.<format>", format)
CallSaveDataframe ==
    /\ pc = "save"
    /\ \E format \in Formats :
           LET out == SaveDataframe(fs, predictions, <<"predictions", "table", format>>,
                                    format)
           IN  /\ fs' = out.fs
               /\ result' = [via |-> "save_dataframe", format |-> format,
                             status |-> out.status]
    /\ pc' = "saved"
    /\ UNCHANGED <<config, df, seasonal_df, eligible_players, cursor, predictions, remote, calls>>

NextSave ==
    \/ CallSavePredictions
    \/ CallSaveDataframe

SpecSave == InitSave /\ [][NextSave]_vars

-----------------------------------------------------------------------------
(* Claims about persistence.                                               *)

\* C18: a save in a format other than parquet, csv or json, by
\* save_predictions or by save_dataframe, fails with the unsupported-format
\* error and leaves the file system as it was: no directory made, no file
\* written.
C18_UnsupportedFormatBeforeIO ==
    [][(pc = "save" /\ Lower(result'.format) \notin {"parquet", "csv", "json"}) =>
          /\ result'.status = "ValueError: Unsupported format"
          /\ fs' = fs]_vars

-----------------------------------------------------------------------------
(* calculate_trend over seasonal tables of the seasons 2020 to 2022.       *)

\* Most rows of a seasonal table given to calculate_trend.
MaxTrendRows == 3

\* The seasonal row of a single game of fp points.
TrendRow(player_id, season, position, fp) ==
    SeasonalRow(<<ScoredRow(player_id, "A", season, position, fp)>>,
                GroupKey(ScoredRow(player_id, "A", season, position, fp)))

\* Rows of p1 for 2020, 2021 and 2022 as QB and for 2022 as RB, averaging
\* 10, 12 or 14 points or nothing, and a row of another player.
TrendRows ==
    {TrendRow("p1", TargetSeason - 6 + k, "QB", fp) :
        k \in 0..2, fp \in {Null, R(10), R(12), R(14)}}
    \cup {TrendRow("p1", TargetSeason - 4, "RB", fp) : fp \in {Null, R(10), R(12), R(14)}}
    \cup {TrendRow("p2", TargetSeason - 5, "QB", R(100))}

TrendTables ==
    UNION {{t \in [1..n -> TrendRows] :
                \A i, j \in 1..n : i # j => GroupKey(t[i]) # GroupKey(t[j])} :
           n \in 0..MaxTrendRows}

InitTrend ==
    /\ pc = "trend"
    /\ seasonal_df \in TrendTables
    /\ config = [scoring |-> Null, prediction |-> DefaultPrediction]
    /\ df = Null
    /\ eligible_players = <<>>
    /\ cursor = 0
    /\ predictions = <<>>
    /\ result = Null
    /\ remote = Null
    /\ calls = <<>>
    /\ fs = EmptyFs

\* calculate_trend(seasonal_df, "p1")
Trend ==
    /\ pc = "trend"
    /\ result' = [value |-> CalculateTrend(seasonal_df, "p1")]
    /\ pc' = "trended"
    /\ UNCHANGED <<config, df, seasonal_df, eligible_players, cursor, predictions, fs, remote, calls>>

NextTrend == Trend

SpecTrend == InitTrend /\ [][NextTrend]_vars

-----------------------------------------------------------------------------
(* Claims about calculate_trend.                                           *)

\* The valid (season, average) entries of p1.
TrendPairs == ValidData(PlayerData(seasonal_df, "p1"))

\* Sum over the entries of (season - mean season) * (average - mean average)
\* and of (season - mean season)^2.
RECURSIVE SumCross(_, _, _)
SumCross(rows, mx, my) ==
    IF rows = <<>> THEN Zero
    ELSE RAdd(RMul(RSub(R(rows[1].season), mx), RSub(rows[1].avg_fp_per_game, my)),
              SumCross(Tail(rows), mx, my))

RECURSIVE SumSquares(_, _)
SumSquares(rows, mx) ==
    IF rows = <<>> THEN Zero
    ELSE RAdd(RMul(RSub(R(rows[1].season), mx), RSub(R(rows[1].season), mx)),
              SumSquares(Tail(rows), mx))

\* The least-squares slope of the entries, from the deviations of the means.
LeastSquaresSlope(rows) ==
    LET mx == RDiv(R(SumSeasons(rows)), R(Len(rows)))
        my == Mean([i \in 1..Len(rows) |-> rows[i].avg_fp_per_game])
    IN  RDiv(SumCross(rows, mx, my), SumSquares(rows, mx))

\* Every entry lies on the line through entry 1 with slope b.
OnLine(rows, b) ==
    \A i \in 1..Len(rows) :
        rows[i].avg_fp_per_game =
            RAdd(rows[1].avg_fp_per_game,
                 RMul(b, R(rows[i].season - rows[1].season)))

\* C20: with two or more valid entries whose seasons are not all equal,
\* calculate_trend is the least-squares slope over exactly the valid
\* entries; for entries on a line avg = a + b * season it is b, and it is
\* 2.0 for (2020, 10), (2021, 12), (2022, 14).
C20_LeastSquaresSlope ==
    (/\ pc = "trended"
     /\ Len(TrendPairs) >= 2
     /\ \E i, j \in 1..Len(TrendPairs) : TrendPairs[i].season # TrendPairs[j].season) =>
        /\ result.value = LeastSquaresSlope(TrendPairs)
        /\ \A b \in {R(k) : k \in -2..2} \cup {Half} :
               OnLine(TrendPairs, b) => result.value = b
        /\ {<<TrendPairs[i].season, TrendPairs[i].avg_fp_per_game>> :
                i \in 1..Len(TrendPairs)}
               = {<<2020, R(10)>>, <<2021, R(12)>>, <<2022, R(14)>>}
               => result.value = R(2)

\* The trend of a player with (2020, 10), (2021, 12), (2022, 14) is 2.0.
C20_Witness ==
    /\ pc = "trended"
    /\ Len(TrendPairs) = 3
    /\ {<<TrendPairs[i].season, TrendPairs[i].avg_fp_per_game>> : i \in 1..3}
           = {<<2020, R(10)>>, <<2021, R(12)>>, <<2022, R(14)>>}
    /\ result.value = R(2)

\* C21: calculate_trend is exactly 0.0 when the player has fewer than 2
\* entries with a valid average and when all valid entries have the same
\* season (the denominator is then zero and no division takes place).
C21_ZeroWithoutSlope ==
    (/\ pc = "trended"
     /\ \/ Len(TrendPairs) < 2
        \/ \A i, j \in 1..Len(TrendPairs) : TrendPairs[i].season = TrendPairs[j].season) =>
        result.value = Zero

\* Two valid entries of one season with different averages, next to an
\* entry without average: the trend is 0.
C21_Witness ==
    /\ pc = "trended"
    /\ Len(PlayerData(seasonal_df, "p1")) = 3
    /\ Len(TrendPairs) = 2
    /\ TrendPairs[1].season = TrendPairs[2].season
    /\ TrendPairs[1].avg_fp_per_game # TrendPairs[2].avg_fp_per_game
    /\ result.value = Zero

-----------------------------------------------------------------------------
(* Claims about the history the prediction reads.                          *)

\* The seasonal table without the summaries older than the lookback window.
WithoutOlder ==
    SelectSeq(seasonal_df, LAMBDA r : r.season > config.prediction.target_season - 4)

\* All valid entries of p1, of any season.
FullHistory == ValidData(PlayerData(seasonal_df, "p1"))

\* C22: the trend of a prediction is the slope over all of the player's
\* valid summaries, those older than target_season - 3 included, while the
\* weighted average and the consistency mean are those of the table without
\* the older summaries: a summary outside the window changes neither.
C22_TrendOverFullHistory ==
    Predicted =>
        /\ (/\ Len(FullHistory) >= 2
            /\ \E i, j \in 1..Len(FullHistory) :
                   FullHistory[i].season # FullHistory[j].season) =>
               result.value.trend = Round(LeastSquaresSlope(FullHistory), 1000)
        /\ WeightedAvg(ValidWindow) = WeightedAvg(ValidData(PlayerData(WithoutOlder, "p1")))
        /\ Consistency(RecentData(PlayerData(seasonal_df, "p1"),
                                  config.prediction.target_season))
               = Consistency(PlayerData(WithoutOlder, "p1"))
        /\ LET alone == PredictPlayer2026(WithoutOlder, "p1", config.prediction)
           IN  /\ result.value.recent_avg_fp = alone.recent_avg_fp
               /\ result.value.consistency_score = alone.consistency_score
               /\ result.value.seasons_analyzed = alone.seasons_analyzed

\* A prediction whose table has a valid summary older than the window, and
\* whose trend is not the trend of the window's summaries alone.
C22_Witness ==
    /\ Predicted
    /\ \E i \in 1..Len(FullHistory) :
           FullHistory[i].season < config.prediction.target_season - 3
    /\ result.value.trend # Round(CalculateTrend(WithoutOlder, "p1"), 1000)
    /\ result.value.trend # Zero

-----------------------------------------------------------------------------
(* get_player_seasonal_stats over the games of one player in two seasons.  *)

\* Most games of a season.
MaxGroupGames == 3

\* The fantasy points a game may have: none, 2, 3 or 6.
FpValues == <<Null, R(2), R(3), R(6)>>

\* The games of p1 in a season: up to MaxGroupGames games (at least least
\* of them), as the choice of their points.
SeasonGamesOf(season, least) ==
    UNION {{[i \in 1..n |-> ScoredRow("p1", "A", season, "QB", FpValues[idx[i]])] :
               idx \in {f \in [1..n -> 1..Len(FpValues)] :
                           \A i \in 1..(n - 1) : f[i] <= f[i + 1]}} :
           n \in least..MaxGroupGames}

\* Scored frames: the games of 2024 followed by those of 2025 (if any).
AggregateFrames ==
    {[cols |-> {}, scored |-> TRUE, rows |-> a \o b] :
        a \in SeasonGamesOf(TargetSeason - 2, 1),
        b \in SeasonGamesOf(TargetSeason - 1, 0)}

InitAggregate ==
    /\ pc = "aggregate"
    /\ df \in AggregateFrames
    /\ config = [scoring |-> Null, prediction |-> DefaultPrediction]
    /\ seasonal_df = <<>>
    /\ eligible_players = <<>>
    /\ cursor = 0
    /\ predictions = <<>>
    /\ result = Null
    /\ remote = Null
    /\ calls = <<>>
    /\ fs = EmptyFs

\* get_player_seasonal_stats(df), the table in any row order.
Aggregate ==
    /\ pc = "aggregate"
    /\ \E order \in Orderings(GroupKeys(df.rows)) :
           seasonal_df' = GetPlayerSeasonalStats(df, order)
    /\ pc' = "summarised"
    /\ UNCHANGED <<config, df, eligible_players, cursor, predictions, result, fs, remote, calls>>

NextAggregate == Aggregate

SpecAggregate == InitAggregate /\ [][NextAggregate]_vars

-----------------------------------------------------------------------------
(* Claims about the seasonal summaries.                                    *)

\* The game rows of player_id in season.
GamesOf(player_id, season) ==
    SelectSeq(df.rows, LAMBDA r : r.player_id = player_id /\ r.season = season)

\* C23: the summary of a (player, season) with fewer than 2 game rows has
\* an undefined fp_std (null, not 0) and a consistency_score of exactly 0.5.
C23_SingleGameHalf ==
    pc = "summarised" =>
        \A i \in 1..Len(seasonal_df) :
            Len(GamesOf(seasonal_df[i].player_id, seasonal_df[i].season)) < 2 =>
                /\ seasonal_df[i].fp_std = Null
                /\ seasonal_df[i].consistency_score = Half

\* A season of a single game with points, summarised.
C23_Witness ==
    /\ pc = "summarised"
    /\ \E i \in 1..Len(seasonal_df) :
           /\ seasonal_df[i].games_played = 1
           /\ seasonal_df[i].avg_fp_per_game = R(6)
           /\ seasonal_df[i].consistency_score = Half

\* C24: the summary of a group of 2 or more game rows that all hold the
\* same fantasy_points value has fp_std = 0 and consistency_score = 1.0.
C24_IdenticalGamesOne ==
    pc = "summarised" =>
        \A i \in 1..Len(seasonal_df) :
            LET games == GamesOf(seasonal_df[i].player_id, seasonal_df[i].season)
            IN  (/\ Len(games) >= 2
                 /\ \A j \in 1..Len(games) :
                        /\ games[j].fantasy_points # Null
                        /\ games[j].fantasy_points = games[1].fantasy_points) =>
                    /\ seasonal_df[i].fp_std = Zero
                    /\ seasonal_df[i].consistency_score = One

\* A season of three games of 3 points each, summarised.
C24_Witness ==
    /\ pc = "summarised"
    /\ \E i \in 1..Len(seasonal_df) :
           /\ seasonal_df[i].games_played = 3
           /\ seasonal_df[i].min_fp = R(3)
           /\ seasonal_df[i].max_fp = R(3)
           /\ seasonal_df[i].consistency_score = One

\* C25: every summary has a consistency_score, in (0, 1]; of two summaries
\* with a defined fp_std the one with the larger fp_std has the strictly
\* smaller consistency_score.
C25_ConsistencyRange ==
    pc = "summarised" =>
        /\ \A i \in 1..Len(seasonal_df) :
               /\ seasonal_df[i].consistency_score # Null
               /\ RLt(Zero, seasonal_df[i].consistency_score)
               /\ RLe(seasonal_df[i].consistency_score, One)
        /\ \A i, j \in 1..Len(seasonal_df) :
               (/\ seasonal_df[i].fp_std # Null
                /\ seasonal_df[j].fp_std # Null
                /\ RLt(seasonal_df[i].fp_std, seasonal_df[j].fp_std)) =>
                   RLt(seasonal_df[j].consistency_score, seasonal_df[i].consistency_score)

\* Two summaries with different deviations, the larger one above 1, next to
\* each other.
C25_Witness ==
    /\ pc = "summarised"
    /\ Len(seasonal_df) = 2
    /\ seasonal_df[1].fp_std # Null
    /\ seasonal_df[2].fp_std # Null
    /\ RLt(seasonal_df[1].fp_std, One)
    /\ RLt(One, seasonal_df[2].fp_std)
    /\ RLt(seasonal_df[2].consistency_score, seasonal_df[1].consistency_score)

-----------------------------------------------------------------------------
(* Claims about players without recent data.                               *)

\* The player's summaries in the lookback window that have an average.
WindowData(player_id) ==
    ValidData(RecentData(PlayerData(seasonal_df, player_id),
                         config.prediction.target_season))

PredictedPlayers == {predictions[i].player_id : i \in 1..Len(predictions)}

\* C26: for a player with no summary in the lookback window, and for one
\* whose window summaries all lack an average, predict_player_2026 returns
\* None and does not raise; predict_all_players leaves the player out and
\* goes on to the other players.
C26_NoRecentDataIsNone ==
    (pc = "done" /\ StatsFile \in fs.files) =>
        /\ cursor = Len(eligible_players)
        /\ \A pid \in SeqToSet(eligible_players) :
               IF WindowData(pid) = <<>>
               THEN /\ ~PredictRaises(seasonal_df, pid, config.prediction)
                    /\ IsNone(PredictPlayer2026(seasonal_df, pid, config.prediction))
                    /\ pid \notin PredictedPlayers
                    /\ \A i \in 1..Len(result.table) : result.table[i].player_id # pid
               ELSE PredictRaises(seasonal_df, pid, config.prediction)
                        \/ pid \in PredictedPlayers

\* The loop first met a player whose only window summary has no average,
\* then predicted the other player.
C26_Witness ==
    /\ pc = "done"
    /\ result.status = "ok"
    /\ Len(eligible_players) = 2
    /\ RecentData(PlayerData(seasonal_df, eligible_players[1]),
                  config.prediction.target_season) # <<>>
    /\ WindowData(eligible_players[1]) = <<>>
    /\ Len(result.table) = 1
    /\ result.table[1].player_id = eligible_players[2]

-----------------------------------------------------------------------------
\* The data fetcher (data_fetch/data_fetcher.py).  nflreadpy is the remote
\* side: for each data type its load function returns data ("ok"), raises
\* ("raises"), or is not there at all ("unavailable").

\* fetch_all's fetch_methods, in the order of the list.
DataTypes ==
    <<"player_stats", "player_seasonal", "player_weekly", "team_stats", "rosters",
      "schedules", "injuries", "draft_picks", "contracts", "play_by_play">>

DataTypeSet == SeqToSet(DataTypes)

\* data_config.get("enabled", True), and get("enabled", False) for
\* play_by_play.
EnabledByDefault(data_type) == data_type # "play_by_play"

\* self.config["data_types"].get(data_type, {})
DataConfig(cfg, data_type) == Get(cfg.data_types, data_type, NoArg)

\* Faulty variant: the enabled flag of the configuration is not read.
EnabledIgnoringFlag(cfg, data_type) == EnabledByDefault(data_type)

Enabled(cfg, data_type) ==
    Get(DataConfig(cfg, data_type), "enabled", EnabledByDefault(data_type))

\* The hasattr chain of a fetch method: the data ("ok"), an exception
\* ("raises"), or the warning and return ("skip").  fetch_player_stats raises
\* AttributeError when its function is missing; fetch_player_weekly falls
\* back to load_player_stats.
Download(rem, data_type) ==
    IF rem[data_type] # "unavailable" THEN rem[data_type]
    ELSE IF data_type = "player_stats" THEN "raises"
    ELSE IF data_type = "player_weekly"
    THEN IF rem["player_stats"] = "unavailable" THEN "skip" ELSE rem["player_stats"]
    ELSE "skip"

\* The load function a fetch method ends up calling.
LoadedFrom(rem, data_type) ==
    IF data_type = "player_weekly" /\ rem[data_type] = "unavailable"
    THEN "player_stats" ELSE data_type

\* _get_output_path(data_type, format): <<directory, file name, extension>>,
\* the directory being output_dir / data_type or output_dir itself.
GetOutputPath(cfg, data_type, format) ==
    IF Get(cfg.output, "create_subdirectories", TRUE)
    THEN <<(<<cfg.output.directory, data_type>>), data_type, format>>
    ELSE <<(<<cfg.output.directory>>), data_type, format>>

\* One fetch_<type>(seasons) call: what it did and the file system it
\* leaves.  downloaded: a load function was called; saved: save_dataframe
\* was called; raised: the call ended in an exception.
FetchType(files, cfg, rem, data_type) ==
    LET data_config == DataConfig(cfg, data_type)
        got == Download(rem, data_type)
        output_format == Get(data_config, "format", "parquet")
        output_path == GetOutputPath(cfg, data_type, output_format)
        save == SaveDataframe(files, LoadedFrom(rem, data_type), output_path,
                              output_format)
        did(downloaded, saved, raised, after) ==
            [method |-> data_type, downloaded |-> downloaded, saved |-> saved,
             raised |-> raised, fs |-> after]
    IN  IF ~Enabled(cfg, data_type) THEN did(FALSE, FALSE, FALSE, files)
        ELSE IF got = "skip" THEN did(FALSE, FALSE, FALSE, files)
        ELSE IF got = "raises"
        THEN did(rem[LoadedFrom(rem, data_type)] = "raises", FALSE, TRUE, files)
        ELSE did(TRUE, TRUE, save.status # "ok", save.fs)

\* The entry a call leaves in the log.
Logged(did) ==
    [method |-> did.method, downloaded |-> did.downloaded, saved |-> did.saved,
     raised |-> did.raised]

\* What departs from a plain setup: a data type's enabled flag set against
\* its default, a load function that raises or is missing, an unsupported
\* format for player_stats, files written without subdirectories.
MaxFaults == 2

Faults ==
    (DataTypeSet \X {"flip", "raises", "unavailable"})
        \cup {<<"player_stats", "xlsx">>, <<"output", "flat">>}

RECURSIVE FaultSets(_)
FaultSets(k) ==
    IF k = 0 THEN {{}}
    ELSE LET fewer == FaultSets(k - 1)
         IN  fewer \cup {F \cup {a} : F \in fewer, a \in Faults}

\* The fetcher's configuration under a set of faults.
FetcherConfig(F) ==
    LET flipped == {t \in DataTypeSet : <<t, "flip">> \in F}
        formatted == IF F \cap {<<"player_stats", "xlsx">>, <<"player_stats", "csv">>} # {}
                     THEN {"player_stats"} ELSE {}
        format == IF <<"player_stats", "xlsx">> \in F THEN "xlsx" ELSE "csv"
        directory == IF <<"output", "moved">> \in F THEN "./nfl_data" ELSE "./data_output"
        entry(t) ==
            IF t \in flipped /\ t \in formatted
            THEN [enabled |-> ~EnabledByDefault(t), format |-> format]
            ELSE IF t \in flipped THEN [enabled |-> ~EnabledByDefault(t)]
            ELSE [format |-> format]
    IN  [data_types |-> [t \in flipped \cup formatted |-> entry(t)],
         output |-> IF <<"output", "flat">> \in F
                    THEN [directory |-> directory, create_subdirectories |-> FALSE]
                    ELSE [directory |-> directory]]

\* nflreadpy under a set of faults.
RemoteUnder(F) ==
    [t \in DataTypeSet |->
        IF <<t, "unavailable">> \in F THEN "unavailable"
        ELSE IF <<t, "raises">> \in F THEN "raises"
        ELSE "ok"]

\* The files of an earlier, plain fetch_all.
OldFiles ==
    {[path |-> <<(<<"./data_output", t>>), t, "parquet">>, encoding |-> "parquet",
      rows |-> "old"] : t \in DataTypeSet \ {"play_by_play"}}

\* The file system an earlier, plain fetch_all leaves.
FetchedBefore ==
    [dirs |-> {<<"./data_output">>}
                 \cup {<<"./data_output", t>> : t \in DataTypeSet \ {"play_by_play"}},
     files |-> OldFiles]

InitFetch ==
    /\ pc \in {"fetch_all", "fetch"}
    /\ \E F \in FaultSets(MaxFaults) :
           /\ config = FetcherConfig(F)
           /\ remote = RemoteUnder(F)
    /\ fs = FetchedBefore
    /\ calls = <<>>
    /\ cursor = 0
    /\ result = Null
    /\ df = Null
    /\ seasonal_df = <<>>
    /\ eligible_players = <<>>
    /\ predictions = <<>>

\* Faulty variant: the loop of fetch_all without its try/except.
FetchAllStepUncaught ==
    /\ pc = "fetch_all"
    /\ LET did == FetchType(fs, config, remote, DataTypes[cursor + 1])
       IN  /\ calls' = Append(calls, Logged(did))
           /\ fs' = did.fs
           /\ cursor' = cursor + 1
           /\ pc' = IF did.raised THEN "raised"
                    ELSE IF cursor + 1 = Len(DataTypes) THEN "done" ELSE pc
           /\ result' = IF did.raised THEN [status |-> "raised"]
                        ELSE IF cursor + 1 = Len(DataTypes) THEN [status |-> "ok"]
                        ELSE result
    /\ UNCHANGED <<config, df, seasonal_df, eligible_players, predictions, remote>>

\* One turn of fetch_all's loop: the next method is called, its exception,
\* if any, is logged and dropped; after the last method fetch_all returns.
FetchAllStep ==
    /\ pc = "fetch_all"
    /\ LET did == FetchType(fs, config, remote, DataTypes[cursor + 1])
       IN  /\ calls' = Append(calls, Logged(did))
           /\ fs' = did.fs
    /\ cursor' = cursor + 1
    /\ pc' = IF cursor + 1 = Len(DataTypes) THEN "done" ELSE pc
    /\ result' = IF cursor + 1 = Len(DataTypes) THEN [status |-> "ok"] ELSE result
    /\ UNCHANGED <<config, df, seasonal_df, eligible_players, predictions, remote>>

\* A single fetch_<type>() call from outside.
CallFetchType ==
    /\ pc = "fetch"
    /\ \E t \in DataTypeSet :
           LET did == FetchType(fs, config, remote, t)
           IN  /\ calls' = Append(calls, Logged(did))
               /\ fs' = did.fs
               /\ result' = [status |-> IF did.raised THEN "raised" ELSE "ok"]
    /\ pc' = "returned"
    /\ UNCHANGED <<config, df, seasonal_df, eligible_players, cursor, predictions, remote>>

NextFetch == FetchAllStep \/ CallFetchType

\* fetch_all is a plain loop: it takes its next turn.
SpecFetch == InitFetch /\ [][NextFetch]_vars /\ WF_vars(FetchAllStep)

\* The methods of the log, in call order.
RECURSIVE MethodsOf(_)
MethodsOf(log) ==
    IF log = <<>> THEN <<>> ELSE <<log[1].method>> \o MethodsOf(Tail(log))

\* C27: fetch_all calls the ten fetch methods once each in the order of its
\* list, whatever any of them raises: at every moment the calls made are the
\* first entries of the list, and a started fetch_all comes to its normal
\* return with all ten called.
C27_AllTenInOrder ==
    /\ [](pc \in {"fetch_all", "done"} =>
            /\ MethodsOf(calls) = SubSeq(DataTypes, 1, cursor)
            /\ (pc = "done" => cursor = Len(DataTypes) /\ result.status = "ok"))
    /\ (pc = "fetch_all" ~>
            (pc = "done" /\ result.status = "ok" /\ MethodsOf(calls) = DataTypes))

\* fetch_all has returned although one method raised, and a method called
\* after that one has saved its data.
C27_Witness ==
    /\ pc = "done"
    /\ \E i, j \in 1..Len(calls) :
           /\ i < j
           /\ calls[i].raised
           /\ calls[j].saved /\ ~calls[j].raised

\* The configuration of the data type has enabled = false.
ConfiguredOff(data_type) ==
    /\ data_type \in DOMAIN config.data_types
    /\ "enabled" \in DOMAIN config.data_types[data_type]
    /\ ~config.data_types[data_type].enabled

\* C28: a fetch_<type> call for a data type configured with enabled = false
\* calls no load function and not save_dataframe, leaves every file and
\* directory as it was, and returns normally; play_by_play without a flag is
\* treated the same way.
C28_DisabledTypeUntouched ==
    /\ \A i \in 1..Len(calls) :
           (ConfiguredOff(calls[i].method)
               \/ (calls[i].method = "play_by_play"
                       /\ "play_by_play" \notin DOMAIN config.data_types)) =>
               ~calls[i].downloaded /\ ~calls[i].saved /\ ~calls[i].raised
    /\ (pc = "returned" /\ ConfiguredOff(calls[1].method)) =>
           fs = FetchedBefore /\ result.status = "ok"

\* A disabled data type was fetched whose load function would have
\* returned data and whose output file is there from before.
C28_Witness ==
    /\ pc = "returned"
    /\ ConfiguredOff(calls[1].method)
    /\ remote[calls[1].method] = "ok"
    /\ \E f \in fs.files :
           f.path = GetOutputPath(config, calls[1].method, "parquet") /\ f.rows = "old"

-----------------------------------------------------------------------------
\* The data check of predict_fantasy_players (__init__.py): the freshness
\* test, the fetch it may trigger, and the predictor's load after it.  A
\* file from before carries its age in hours; a file written during the call
\* is new.

AgeOf(f) == IF "age" \in DOMAIN f THEN f.age ELSE 0

\* data_dir / "player_stats" / "player_stats.parquet"
StatsPath(data_dir) == <<(<<data_dir, "player_stats">>), "player_stats", "parquet">>

FilesAt(files, path) == {f \in files.files : f.path = path}

\* Faulty variant: a file exactly cache_duration_hours old counts as fresh.
CheckDataFreshnessInclusive(files, data_path, cache_duration_hours) ==
    IF FilesAt(files, data_path) = {}
    THEN [exists |-> FALSE, is_fresh |-> FALSE, age_hours |-> Null, needs_update |-> TRUE]
    ELSE LET age_hours == AgeOf(CHOOSE f \in FilesAt(files, data_path) : TRUE)
         IN  [exists |-> TRUE, is_fresh |-> age_hours <= cache_duration_hours,
              age_hours |-> age_hours,
              needs_update |-> ~(age_hours <= cache_duration_hours)]

\* _check_data_freshness(data_path, cache_duration_hours)
CheckDataFreshness(files, data_path, cache_duration_hours) ==
    IF FilesAt(files, data_path) = {}
    THEN [exists |-> FALSE, is_fresh |-> FALSE, age_hours |-> Null, needs_update |-> TRUE]
    ELSE LET age_hours == AgeOf(CHOOSE f \in FilesAt(files, data_path) : TRUE)
             is_fresh == age_hours < cache_duration_hours
         IN  [exists |-> TRUE, is_fresh |-> is_fresh, age_hours |-> age_hours,
              needs_update |-> ~is_fresh]

DefaultCacheHours == 24

\* _ensure_player_stats_data(data_dir, cache_duration_hours, force_refresh,
\* config_path): the status found, whether fetch_player_stats was called and
\* what it did, the file system left, and the path returned unless the
\* fetch raised.
EnsurePlayerStatsData(files, call, cfg, rem) ==
    LET data_dir == Get(call, "data_dir", "./data_output")
        stats_path == StatsPath(data_dir)
        cache_duration_hours == Get(call, "cache_duration_hours", DefaultCacheHours)
        status == CheckDataFreshness(files, stats_path, cache_duration_hours)
        fetcher == EnsureDirectory(files, <<cfg.output.directory>>)
        did == FetchType(fetcher, cfg, rem, "player_stats")
    IN  IF call.force_refresh \/ status.needs_update
        THEN [checked |-> status, fetched |-> <<Logged(did)>>, fs |-> did.fs,
              raised |-> did.raised, stats_path |-> stats_path]
        ELSE [checked |-> status, fetched |-> <<>>, fs |-> files,
              raised |-> FALSE, stats_path |-> stats_path]

\* The oldest file looked at, in hours.
MaxAge == 3

\* What may be at a stats path before the call: nothing, or a file of some
\* age.
FileStates == {<<>>} \cup {<<age>> : age \in 0..MaxAge}

FileIn(data_dir, state) ==
    IF state = <<>> THEN {}
    ELSE {[path |-> StatsPath(data_dir), encoding |-> "parquet", rows |-> "old",
           age |-> state[1]]}

\* The calls of predict_fantasy_players as far as the data check goes.
EnsureCalls ==
    LET timed == [force_refresh : BOOLEAN, cache_duration_hours : {2}]
                     \cup [force_refresh : BOOLEAN]
    IN  timed \cup {[c \in DOMAIN t \cup {"data_dir"} |->
                        IF c = "data_dir" THEN "./my_data" ELSE t[c]] : t \in timed}

\* What the fetcher's configuration file and nflreadpy may have for
\* player_stats.
EnsureFaults ==
    {<<"player_stats", k>> : k \in {"flip", "raises", "unavailable", "xlsx", "csv"}}
        \cup {<<"output", "flat">>, <<"output", "moved">>}

InitEnsure ==
    /\ pc = "ensure"
    /\ \E F \in SUBSET EnsureFaults :
           /\ config = FetcherConfig(F)
           /\ remote = RemoteUnder(F)
    /\ \E here, there \in FileStates :
           fs = [dirs |-> {}, files |-> FileIn("./data_output", here)
                                            \cup FileIn("./my_data", there)]
    /\ calls = <<>>
    /\ cursor = 0
    /\ result = Null
    /\ df = Null
    /\ seasonal_df = <<>>
    /\ eligible_players = <<>>
    /\ predictions = <<>>

\* Step 1 of predict_fantasy_players: _ensure_player_stats_data, and, when
\* it returns, the data status of the returned path.
EnsureData ==
    /\ pc = "ensure"
    /\ \E call \in EnsureCalls :
           LET out == EnsurePlayerStatsData(fs, call, config, remote)
           IN  /\ calls' = calls \o out.fetched
               /\ fs' = out.fs
               /\ pc' = IF out.raised THEN "raised" ELSE "ensured"
               /\ result' =
                      IF out.raised
                      THEN [call |-> call, checked |-> out.checked, status |-> "raised"]
                      ELSE [call |-> call, checked |-> out.checked, status |-> "ok",
                            stats_path |-> out.stats_path,
                            data_status |->
                                CheckDataFreshness(out.fs, out.stats_path,
                                    Get(call, "cache_duration_hours", DefaultCacheHours))]
    /\ UNCHANGED <<config, df, seasonal_df, eligible_players, cursor, predictions, remote>>

\* Steps 2 and 3 as far as the file goes: the predictor reads the stats
\* file of its data directory, the data_dir argument when one was given and
\* the data_output_dir of the prediction configuration otherwise.
LoadEnsured ==
    /\ pc = "ensured"
    /\ \E data_output_dir \in {"./data_output", "./my_data"} :
           LET data_dir == Get(result.call, "data_dir", data_output_dir)
           IN  pc' = IF FilesAt(fs, StatsPath(data_dir)) # {} THEN "loaded"
                     ELSE "FileNotFoundError"
    /\ UNCHANGED <<config, df, seasonal_df, eligible_players, cursor, predictions, result,
                   fs, remote, calls>>

NextEnsure == EnsureData \/ LoadEnsured

SpecEnsure == InitEnsure /\ [][NextEnsure]_vars

\* The stats file of the call, as it was before the call.
StatsFileBefore(call) == FilesAt(fs, StatsPath(Get(call, "data_dir", "./data_output")))

\* force_refresh is set, the file is missing, or its age is at least
\* cache_duration_hours.
NeedsFetch(call) ==
    \/ call.force_refresh
    \/ StatsFileBefore(call) = {}
    \/ \E f \in StatsFileBefore(call) :
           f.age >= Get(call, "cache_duration_hours", DefaultCacheHours)

C30_StatsFileAtReturnedPath ==
    pc \in {"ensured", "loaded", "FileNotFoundError"} =>
        /\ FilesAt(fs, result.stats_path) # {}
        /\ result.data_status.exists

=============================================================================
